---- MODULE Spec2Model ----
(***************************************************************************)
(* Model of the plotter executor of postcard-plotter-web:                  *)
(* AxiDrawController (src/axidraw_controller.py) driving the pyaxidraw     *)
(* device capability.  connect() and disconnect() are one action each,     *)
(* plot_paths() in simulated mode is one action, and plot_paths() in       *)
(* hardware mode is a sequence of steps, one per device command, each of   *)
(* which either succeeds or raises.                                        *)
(***************************************************************************)
EXTENDS Integers, Sequences, FiniteSets, TLC

\* ------------------------------------------------------------------ bounds
MaxPaths == 2
MaxPathLen == 2
MaxHandles == 2
MaxTextLen == 3
MaxWordLen == 3

\* --------------------------------------------------------------- constants
WORKSPACE_MIN_X == 10
WORKSPACE_MAX_X == 95
WORKSPACE_MIN_Y == 10
WORKSPACE_MAX_Y == 50

\* Points a caller may put in a path: one inside the workspace rectangle and
\* one to the right of it.
Points == { [x |-> 10, y |-> 10], [x |-> 106, y |-> 10] }

\* A point dictionary without the key 'x': reading point['x'] raises.
Malformed == [y |-> 10]

WellFormed(p) == "x" \in DOMAIN p

\* Paths of well-formed points.
PathSet == UNION { [1..n -> Points] : n \in 0..MaxPathLen }

\* Paths whose first or second point is malformed (what comes after the
\* first malformed point of a path is never read).
MalformedPaths == { << Malformed >> } \cup { << p, Malformed >> : p \in Points }

\* Lists of well-formed paths, and the same with a malformed path at the
\* end.
PathLists ==
  UNION { [1..n -> PathSet] : n \in 0..MaxPaths }
  \cup { Append(ps, path) :
           ps \in UNION { [1..n -> PathSet] : n \in 0..(MaxPaths - 1) },
           path \in MalformedPaths }

\* self.ad = None
NoHandle == 0

Handles == 1..MaxHandles

VARIABLES
  AXIDRAW_AVAILABLE, \* module-level flag: pyaxidraw could be imported
  dev_mode,          \* self.dev_mode
  connected,         \* self.connected
  ad,                \* self.ad: NoHandle or the id of an AxiDraw object
  opened,            \* handles whose USB connection is open (device side)
  pen,               \* physical pen position, "up" or "down"
  pos,               \* physical head position <<x, y>>
  op,                \* the operation last called on the executor
  pc,                \* "idle", the block of plot_paths being executed, or
                     \* "done" when the operation has returned its result
  paths,             \* argument of the plot_paths call
  i,                 \* index (1-based) of the path being plotted
  queue,             \* device commands left in the current block
  exc,               \* the exception caught by the plotting handler
  last,              \* last device command issued by the operation
  failed,            \* a device command of the operation has raised
  recovering,        \* the operation entered the recovery handler
  created,           \* AxiDraw objects the operation has created
  prev,              \* the call before this one (not kept through a
                     \* hardware plot): its name, whether the executor was
                     \* connected when it was made, and whether it succeeded
  result,            \* the dictionary the operation returned
  pre,               \* executor state when the operation was called
  mistake_frequency, \* FontParser.mistake_frequency, in tenths
  call,              \* the last call on the font parser: its name, its
                     \* arguments and what it returned
  seen,              \* an earlier get_text_paths call made with
                     \* mistake_frequency 0, kept for comparison
  response           \* what the server answered to the last request

\* The fields of the executor and the locals of its operations.
executor == << AXIDRAW_AVAILABLE, dev_mode, connected, ad, opened, pen, pos,
               op, pc, paths, i, queue, exc, last, failed, recovering,
               created, prev, result, pre >>

\* The fields of the font parser and the record of its calls.
parser == << mistake_frequency, call, seen >>

\* What the request handlers of the server leave behind.
server == << response >>

vars == << executor, parser, server >>

\* ---------------------------------------------------------- device commands
Cmd(n, a, b) == [name |-> n, a |-> a, b |-> b]

NoCmd == Cmd("none", 0, 0)

PenUp == Cmd("penup", 0, 0)

PenDown == Cmd("pendown", 0, 0)

MoveTo(x, y) == Cmd("moveto", x, y)

LineTo(x, y) == Cmd("lineto", x, y)

Delay(ms) == Cmd("delay", ms, 0)

\* Effect of a command that succeeded on the physical pen.
PenAfter(c, p) ==
  CASE c.name = "penup" -> "up"
    [] c.name = "pendown" -> "down"
    [] OTHER -> p

\* Effect of a command that succeeded on the physical head position.
PosAfter(c, q) ==
  IF c.name \in {"moveto", "lineto"} THEN << c.a, c.b >> ELSE q

\* _home_axes: pen up, move to the origin, pen up again, with delays.
HomeCmds ==
  << PenUp, Delay(500), MoveTo(0, 0), Delay(500), PenUp, Delay(200) >>

\* Reading the points of the path raises KeyError.
Raises(path) == \E k \in 1..Len(path) : ~WellFormed(path[k])

\* The points of the path before the first malformed one.
RECURSIVE Readable(_)
Readable(path) ==
  IF path = << >> \/ ~WellFormed(Head(path)) THEN << >>
  ELSE << Head(path) >> \o Readable(Tail(path))

\* for point in path[1:]: lineto(point); delay(100)
LineCmds(path) ==
  [k \in 1..(2 * (Len(path) - 1)) |->
     IF k % 2 = 1 THEN LineTo(path[(k + 1) \div 2 + 1].x, path[(k + 1) \div 2 + 1].y)
                  ELSE Delay(100)]

\* The body of the loop without the return to the origin after the path.
PathCmds_NoReturn(path) ==
  << PenUp, Delay(800),
     MoveTo(0, path[1].y), Delay(500),
     MoveTo(path[1].x, path[1].y), Delay(800),
     PenDown, Delay(500) >>
  \o LineCmds(Readable(path))
  \o IF Raises(path) THEN << >> ELSE << PenUp, Delay(500) >>

\* The body of the loop lowering the pen before it moves to the path.
PathCmds_PenDownFirst(path) ==
  << PenUp, Delay(800),
     PenDown, Delay(500),
     MoveTo(0, path[1].y), Delay(500),
     MoveTo(path[1].x, path[1].y), Delay(800) >>
  \o LineCmds(Readable(path))
  \o IF Raises(path) THEN << >>
     ELSE << PenUp, Delay(500),
             MoveTo(0, path[Len(path)].y), Delay(500),
             MoveTo(0, 0), Delay(500) >>

\* Body of the path loop after the per-path homing: the commands sent
\* until the loop ends or the read of a malformed point raises.
PathCmds(path) ==
  << PenUp, Delay(800),
     MoveTo(0, path[1].y), Delay(500),
     MoveTo(path[1].x, path[1].y), Delay(800),
     PenDown, Delay(500) >>
  \o LineCmds(Readable(path))
  \o IF Raises(path) THEN << >>
     ELSE << PenUp, Delay(500),
             MoveTo(0, path[Len(path)].y), Delay(500),
             MoveTo(0, 0), Delay(500) >>

\* The workspace test applied to the first point of a path.
InBounds(p) ==
  /\ WORKSPACE_MIN_X <= p.x /\ p.x <= WORKSPACE_MAX_X
  /\ WORKSPACE_MIN_Y <= p.y /\ p.y <= WORKSPACE_MAX_Y

\* A path the hardware loop skips with 'continue' before any command.
Skipped(path) == path = << >> \/ (WellFormed(path[1]) /\ ~InBounds(path[1]))

\* Index of the first path at or after k that the loop does not skip,
\* Len(ps) + 1 when there is none.
RECURSIVE SkipTo(_, _)
SkipTo(ps, k) ==
  IF k > Len(ps) THEN k
  ELSE IF Skipped(ps[k]) THEN SkipTo(ps, k + 1)
  ELSE k

\* ------------------------------------------------------------ return values
Ok(msg) == [success |-> TRUE, message |-> msg]

\* An error text, with the exception it quotes (NoCmd when it quotes none).
ErrOf(msg, e) == [success |-> FALSE, error |-> << msg, e >>]

Err(msg) == ErrOf(msg, NoCmd)

NoResult == [success |-> TRUE, message |-> "none"]

NoCall == [op |-> "none", connected |-> FALSE, success |-> TRUE]

Snapshot == [connected |-> connected, ad |-> ad, opened |-> opened]

\* No call has been made on the font parser.
NoLayout == [name |-> "none"]

\* No request is being answered.
NoResponse == [request |-> "none"]

\* ------------------------------------------------------------------- Init
\* AxiDrawController.__init__(dev_mode): None auto-detects, True and False
\* set the mode explicitly.
Init ==
  /\ AXIDRAW_AVAILABLE \in BOOLEAN
  /\ \E arg \in {"None", "True", "False"}, ctor_ok \in BOOLEAN :
       IF arg = "None"
       THEN IF AXIDRAW_AVAILABLE /\ ctor_ok
            THEN dev_mode = FALSE /\ ad = 1
            ELSE dev_mode = TRUE /\ ad = NoHandle
       ELSE dev_mode = (arg = "True") /\ ad = NoHandle
  /\ connected = FALSE
  /\ opened = {}
  /\ pen \in {"up", "down"}
  /\ pos = << 0, 0 >>
  /\ op = "none"
  /\ pc = "idle"
  /\ paths = << >>
  /\ i = 0
  /\ queue = << >>
  /\ exc = NoCmd
  /\ last = NoCmd
  /\ failed = FALSE
  /\ recovering = FALSE
  /\ created = 0
  /\ prev = NoCall
  /\ result = NoResult
  /\ pre = [connected |-> FALSE, ad |-> ad, opened |-> {}]
  /\ mistake_frequency = 0
  /\ call = NoLayout
  /\ seen = NoLayout
  /\ response = NoResponse

\* What every call does on entry: remember the state it was called in and
\* clear the per-call bookkeeping.
Enter(name) ==
  /\ pc = "idle"
  /\ op' = name
  /\ pre' = Snapshot
  /\ prev' = IF name = "plot" /\ ~dev_mode THEN NoCall ELSE prev
  /\ i' = 0
  /\ exc' = NoCmd

\* No operation of the executor changes its mode or touches the font parser
\* or the answers of the server.
Mode == UNCHANGED << AXIDRAW_AVAILABLE, dev_mode, parser, server >>

\* The caller takes the result (the request handler answers with it); the
\* locals of the call are gone and the executor awaits the next call.
Return ==
  /\ pc = "done"
  /\ pc' = "idle"
  /\ paths' = << >> /\ i' = 0 /\ queue' = << >> /\ exc' = NoCmd
  /\ last' = NoCmd /\ failed' = FALSE /\ recovering' = FALSE /\ created' = 0
  /\ result' = NoResult
  /\ prev' = [op |-> op, connected |-> pre.connected,
               success |-> result.success]
  /\ UNCHANGED << connected, ad, opened, pen, pos, op, pre >>
  /\ Mode

\* ---------------------------------------------------------------- connect
\* connect() without the early return for a connected executor: it runs the
\* hardware sequence again.
ConnectAlready_Reinit ==
  /\ Enter("connect")
  /\ connected
  /\ result' = Ok("Successfully connected to physical AxiDraw device")
  /\ last' = PenUp /\ failed' = FALSE /\ recovering' = FALSE /\ created' = 1
  /\ paths' = << >> /\ queue' = << >>
  /\ pc' = "done"
  /\ UNCHANGED << connected, ad, opened, pen, pos >>
  /\ Mode

ConnectAlready ==
  /\ Enter("connect")
  /\ connected
  /\ result' = Ok("Already connected to AxiDraw")
  /\ last' = NoCmd /\ failed' = FALSE /\ recovering' = FALSE /\ created' = 0
  /\ paths' = << >> /\ queue' = << >>
  /\ pc' = "done"
  /\ UNCHANGED << connected, ad, opened, pen, pos >>
  /\ Mode

\* Handles that hold no open connection.  The object self.ad referred to
\* is dropped when self.ad is reassigned, so its id is free again unless
\* its connection is still open; "created" tells that self.ad was reassigned.
FreeHandles == { h \in Handles : h \notin opened }

\* The object axidraw.AxiDraw() returns.
FreshHandle ==
  IF FreeHandles = {} THEN NoHandle
  ELSE CHOOSE h \in FreeHandles : \A g \in FreeHandles : h <= g

\* Texts an exception raised by the driver may carry, as connect() tells
\* them apart: "no module named", "could not open"/"failed to open", other.
ExcKinds == {"module", "usb", "other"}

ConnectError(kind) ==
  CASE kind = "module" -> Err("AxiDraw Python module not properly installed")
    [] kind = "usb" -> Err("Could not open USB connection")
    [] OTHER -> Err("Connection failed")

\* The calls of the hardware branch of connect(), in order.
ConnectSteps == << "create", "interactive", "connect", "penup" >>

ConnectUnavailable ==
  /\ Enter("connect")
  /\ ~connected
  /\ ~AXIDRAW_AVAILABLE
  /\ result' = Err("AxiDraw Python module not installed")
  /\ last' = NoCmd /\ failed' = FALSE /\ recovering' = FALSE /\ created' = 0
  /\ paths' = << >> /\ queue' = << >>
  /\ pc' = "done"
  /\ UNCHANGED << connected, ad, opened, pen, pos >>
  /\ Mode

\* Hardware branch: n is the number of calls that succeed before one raises
\* (4 = none raises), kind the text of the exception.
ConnectHardware ==
  /\ Enter("connect")
  /\ ~connected
  /\ AXIDRAW_AVAILABLE
  /\ ~dev_mode
  /\ \E n \in 0..Len(ConnectSteps), kind \in ExcKinds :
       /\ n > 0 => FreshHandle # NoHandle
       /\ ad' = IF n >= 1 THEN FreshHandle ELSE ad
       /\ created' = IF n >= 1 THEN 1 ELSE 0
       /\ opened' = IF n >= 3 THEN opened \cup {FreshHandle} ELSE opened
       /\ pen' = IF n = 4 THEN "up" ELSE pen
       /\ connected' = (n = 4)
       /\ failed' = (n < 4)
       /\ last' = CASE n = 0 -> NoCmd
                    [] n = 4 -> PenUp
                    [] OTHER -> Cmd(ConnectSteps[n + 1], 0, 0)
       /\ result' = IF n = 4
                    THEN Ok("Successfully connected to physical AxiDraw device")
                    ELSE ConnectError(kind)
  /\ recovering' = FALSE
  /\ paths' = << >> /\ queue' = << >>
  /\ pc' = "done"
  /\ UNCHANGED pos
  /\ Mode

ConnectSimulated ==
  /\ Enter("connect")
  /\ ~connected
  /\ AXIDRAW_AVAILABLE
  /\ dev_mode
  /\ connected' = TRUE
  /\ result' = Ok("Connected in development mode (simulation only)")
  /\ last' = NoCmd /\ failed' = FALSE /\ recovering' = FALSE /\ created' = 0
  /\ paths' = << >> /\ queue' = << >>
  /\ pc' = "done"
  /\ UNCHANGED << ad, opened, pen, pos >>
  /\ Mode

\* ------------------------------------------------------------- disconnect
\* disconnect() without the early return for a disconnected executor: it
\* tells the driver to disconnect again.
DisconnectAlready_Release ==
  /\ Enter("disconnect")
  /\ ~connected
  /\ result' = Ok("Disconnected from AxiDraw")
  /\ last' = Cmd("disconnect", 0, 0)
  /\ failed' = FALSE /\ recovering' = FALSE /\ created' = 0
  /\ paths' = << >> /\ queue' = << >>
  /\ pc' = "done"
  /\ UNCHANGED << connected, ad, opened, pen, pos >>
  /\ Mode

DisconnectAlready ==
  /\ Enter("disconnect")
  /\ ~connected
  /\ result' = Ok("Already disconnected")
  /\ last' = NoCmd /\ failed' = FALSE /\ recovering' = FALSE /\ created' = 0
  /\ paths' = << >> /\ queue' = << >>
  /\ pc' = "done"
  /\ UNCHANGED << connected, ad, opened, pen, pos >>
  /\ Mode

DisconnectSimulated ==
  /\ Enter("disconnect")
  /\ connected
  /\ dev_mode
  /\ connected' = FALSE
  /\ result' = Ok("Disconnected from AxiDraw (Development Mode)")
  /\ last' = NoCmd /\ failed' = FALSE /\ recovering' = FALSE /\ created' = 0
  /\ paths' = << >> /\ queue' = << >>
  /\ pc' = "done"
  /\ UNCHANGED << ad, opened, pen, pos >>
  /\ Mode

\* disconnect() dropping the handle when the driver call raises, the
\* connected flag left set.
DisconnectHardware_DropsHandle ==
  /\ Enter("disconnect")
  /\ connected
  /\ ~dev_mode
  /\ IF ad # NoHandle
     THEN \E out \in {"ok", "AttributeError", "Exception"} :
            /\ opened' = IF out = "ok" THEN opened \ {ad} ELSE opened
            /\ connected' = (out # "ok")
            /\ ad' = IF out = "ok" THEN ad ELSE NoHandle
            /\ failed' = (out # "ok")
            /\ last' = Cmd("disconnect", 0, 0)
            /\ result' = IF out = "ok" THEN Ok("Disconnected from AxiDraw")
                         ELSE Err("Failed to disconnect")
     ELSE /\ connected' = FALSE
          /\ result' = Ok("Disconnected (no device was initialized)")
          /\ last' = NoCmd /\ failed' = FALSE
          /\ UNCHANGED << ad, opened >>
  /\ recovering' = FALSE /\ created' = 0
  /\ paths' = << >> /\ queue' = << >>
  /\ pc' = "done"
  /\ UNCHANGED << pen, pos >>
  /\ Mode

\* Hardware branch: self.ad.disconnect() returns, raises AttributeError, or
\* raises another exception; with no handle the flag is just cleared.
DisconnectHardware ==
  /\ Enter("disconnect")
  /\ connected
  /\ ~dev_mode
  /\ IF ad # NoHandle
     THEN \E out \in {"ok", "AttributeError", "Exception"} :
            /\ opened' = IF out = "ok" THEN opened \ {ad} ELSE opened
            /\ connected' = (out # "ok")
            /\ failed' = (out # "ok")
            /\ last' = Cmd("disconnect", 0, 0)
            /\ result' = IF out = "ok" THEN Ok("Disconnected from AxiDraw")
                         ELSE Err("Failed to disconnect")
     ELSE /\ connected' = FALSE
          /\ result' = Ok("Disconnected (no device was initialized)")
          /\ last' = NoCmd /\ failed' = FALSE
          /\ UNCHANGED opened
  /\ recovering' = FALSE /\ created' = 0
  /\ paths' = << >> /\ queue' = << >>
  /\ pc' = "done"
  /\ UNCHANGED << ad, pen, pos >>
  /\ Mode

\* ------------------------------------------------------- plot, simulated
\* (dx * dx + dy * dy) ** 0.5, on the integer coordinates of Points, where
\* the root is exact.
Sqrt(n) == CHOOSE d \in 0..n : d * d <= n /\ n < (d + 1) * (d + 1)

Distance(p, q) == Sqrt((q.x - p.x) * (q.x - p.x) + (q.y - p.y) * (q.y - p.y))

\* total_distance of one path: the sum over consecutive points.
RECURSIVE PathDistance(_, _)
PathDistance(path, k) ==
  IF k > Len(path) THEN 0
  ELSE Distance(path[k - 1], path[k]) + PathDistance(path, k + 1)

\* The lines the simulation appends for one non-empty path.
PathLog(path) ==
  << "path", "move_start", "lower_pen" >>
  \o [k \in 1..(Len(path) - 1) |-> "line"]
  \o << "distance", "raise_pen" >>

\* The loop over the paths in development mode, from path k on; acc holds
\* total_path_distance, total_pen_movements and simulation_logs.
RECURSIVE SimLoop(_, _, _)
SimLoop(ps, k, acc) ==
  IF k > Len(ps) THEN acc
  ELSE IF ps[k] = << >>
  THEN SimLoop(ps, k + 1, [acc EXCEPT !.logs = Append(@, "warn_empty")])
  ELSE SimLoop(ps, k + 1,
         [dist |-> acc.dist + PathDistance(ps[k], 2),
          pens |-> acc.pens + 2,
          logs |-> acc.logs \o PathLog(ps[k])])

SimHeader == << "start", "setup", "home", "pen_up", "begin" >>

SimFooter == << "complete", "pen_up", "home", "statistics", "final" >>

\* first_point['x'], point['x'] on a dictionary without that key
KeyError == Cmd("KeyError", 0, 0)

\* The simulation with the homing counted as a path in the time estimate.
SimResult_CountsHoming(ps) ==
  LET run == SimLoop(ps, 1, [dist |-> 0, pens |-> 0, logs |-> SimHeader])
  IN IF \E k \in 1..Len(ps) : Raises(ps[k])
     THEN ErrOf("Failed to plot", KeyError)
     ELSE
     [success |-> TRUE,
      simulation_logs |-> run.logs \o SimFooter,
      statistics |-> [total_paths |-> Len(ps),
                      total_distance |-> run.dist,
                      pen_movements |-> run.pens,
                      estimated_time |-> (Len(ps) + 1) * 2]]

\* The simulated run: a malformed point raises out of the loop into the
\* outer handler, otherwise the logs and the statistics are returned.
SimResult(ps) ==
  LET run == SimLoop(ps, 1, [dist |-> 0, pens |-> 0, logs |-> SimHeader])
  IN IF \E k \in 1..Len(ps) : Raises(ps[k])
     THEN ErrOf("Failed to plot", KeyError)
     ELSE
     [success |-> TRUE,
      simulation_logs |-> run.logs \o SimFooter,
      statistics |-> [total_paths |-> Len(ps),
                      total_distance |-> run.dist,
                      pen_movements |-> run.pens,
                      estimated_time |-> Len(ps) * 2]]

\* raise Exception("AxiDraw not connected")
NotConnected == Cmd("AxiDraw not connected", 0, 0)

\* plot_paths without the connection test.
RequiresConnected_Skipped == FALSE

\* The test plot_paths makes before anything else.
RequiresConnected == ~connected

\* plot_paths on a disconnected executor: the exception is caught by the
\* outer handler.
PlotNotConnected ==
  /\ Enter("plot")
  /\ RequiresConnected
  /\ paths' \in PathLists
  /\ result' = ErrOf("Failed to plot", NotConnected)
  /\ last' = NoCmd /\ failed' = FALSE /\ recovering' = FALSE /\ created' = 0
  /\ queue' = << >>
  /\ pc' = "done"
  /\ UNCHANGED << connected, ad, opened, pen, pos >>
  /\ Mode

PlotSimulated ==
  /\ Enter("plot")
  /\ ~RequiresConnected
  /\ dev_mode
  /\ \E ps \in PathLists :
       /\ paths' = ps
       /\ result' = SimResult(ps)
  /\ last' = NoCmd /\ failed' = FALSE /\ recovering' = FALSE /\ created' = 0
  /\ queue' = << >>
  /\ pc' = "done"
  /\ UNCHANGED << connected, ad, opened, pen, pos >>
  /\ Mode

\* --------------------------------------------------------- plot, hardware
Options == Cmd("options", 0, 0)

\* Entry of the hardware branch: without a handle it returns at once,
\* otherwise it goes on to configure the device.
PlotHardware ==
  /\ Enter("plot")
  /\ ~RequiresConnected
  /\ ~dev_mode
  /\ paths' \in PathLists
  /\ last' = NoCmd /\ failed' = FALSE /\ recovering' = FALSE /\ created' = 0
  /\ IF ad = NoHandle
     THEN /\ result' = Err("AxiDraw device not initialized")
          /\ queue' = << >>
          /\ pc' = "done"
     ELSE /\ result' = NoResult
          /\ queue' = << Options >>
          /\ pc' = "configure"
  /\ UNCHANGED << connected, ad, opened, pen, pos >>
  /\ Mode

\* A hardware run whose steps drop the connection flag.
Frame_DropsConnection ==
  /\ connected' = FALSE
  /\ UNCHANGED << ad, opened, op, paths, created, prev, pre >> /\ Mode

\* What a step of the hardware run leaves alone.
Frame ==
  UNCHANGED << connected, ad, opened, op, paths, created, prev, pre >> /\ Mode

\* The next command of the block is sent to the device; it takes effect
\* only when it succeeds.
Issue(ok) ==
  /\ queue # << >>
  /\ last' = Head(queue)
  /\ pen' = IF ok THEN PenAfter(Head(queue), pen) ELSE pen
  /\ pos' = IF ok THEN PosAfter(Head(queue), pos) ELSE pos
  /\ failed' = (failed \/ ~ok)

\* The block has more commands.
More == Len(queue) > 1

Continue ==
  /\ queue' = Tail(queue)
  /\ UNCHANGED << pc, i, exc, recovering, result >>

\* The call returns res.
Finish(res) ==
  /\ pc' = "done"
  /\ queue' = << >>
  /\ result' = res
  /\ UNCHANGED << i, exc, recovering >>

Goto(label, cmds) ==
  /\ pc' = label
  /\ queue' = cmds
  /\ UNCHANGED << i, exc, recovering, result >>

\* except Exception as e: try: penup(); _home_axes() except: pass
RecoverFrom(e) ==
  /\ exc' = e
  /\ recovering' = TRUE
  /\ pc' = "recovery"
  /\ queue' = << PenUp >> \o HomeCmds

\* The handler entered by the device command that raised.
Recover == RecoverFrom(Head(queue)) /\ UNCHANGED << i, result >>

\* The loop head for path k: paths that are empty or start outside the
\* workspace are passed over; a path whose first point is malformed raises
\* in the workspace test; after the last path comes the final homing.
GoPath(k) ==
  LET j == SkipTo(paths, k)
  IN /\ i' = j
     /\ UNCHANGED result
     /\ IF j <= Len(paths) /\ ~WellFormed(paths[j][1])
        THEN RecoverFrom(KeyError)
        ELSE /\ pc' = IF j <= Len(paths) THEN "path_home" ELSE "home_last"
             /\ queue' = HomeCmds
             /\ UNCHANGED << exc, recovering >>

PlotCompleted == Ok("Plotting completed successfully")

ConfigureOk ==
  /\ pc = "configure" /\ Issue(TRUE) /\ Frame
  /\ Goto("home_first", HomeCmds)

\* Setting an option raises AttributeError.
ConfigureFail ==
  /\ pc = "configure" /\ Issue(FALSE) /\ Frame
  /\ Finish(ErrOf("Failed to configure AxiDraw", Head(queue)))

HomeFirstOk ==
  /\ pc = "home_first" /\ Issue(TRUE) /\ Frame
  /\ IF More THEN Continue ELSE Goto("penup_first", << PenUp >>)

HomeFirstFail ==
  /\ pc = "home_first" /\ Issue(FALSE) /\ Frame
  /\ Finish(Err("Failed to home AxiDraw axes"))

PenUpFirstOk ==
  /\ pc = "penup_first" /\ Issue(TRUE) /\ Frame
  /\ GoPath(1)

PenUpFirstFail ==
  /\ pc = "penup_first" /\ Issue(FALSE) /\ Frame
  /\ Recover

PathHomeOk ==
  /\ pc = "path_home" /\ Issue(TRUE) /\ Frame
  /\ IF More THEN Continue ELSE Goto("path_draw", PathCmds(paths[i]))

\* Homing before a path failed: the path is passed over.
PathHomeFail ==
  /\ pc = "path_home" /\ Issue(FALSE) /\ Frame
  /\ GoPath(i + 1)

\* After the last command of the block the loop goes to the next path,
\* unless reading the next point of this one raises.
PathDrawOk ==
  /\ pc = "path_draw" /\ Issue(TRUE) /\ Frame
  /\ IF More THEN Continue
     ELSE IF Raises(paths[i])
     THEN RecoverFrom(KeyError) /\ UNCHANGED << i, result >>
     ELSE GoPath(i + 1)

PathDrawFail ==
  /\ pc = "path_draw" /\ Issue(FALSE) /\ Frame
  /\ Recover

HomeLastOk ==
  /\ pc = "home_last" /\ Issue(TRUE) /\ Frame
  /\ IF More THEN Continue ELSE Finish(PlotCompleted)

\* The final homing failed: a warning is logged and the call succeeds.
HomeLastFail ==
  /\ pc = "home_last" /\ Issue(FALSE) /\ Frame
  /\ Finish(PlotCompleted)

RecoveryOk ==
  /\ pc = "recovery" /\ Issue(TRUE) /\ Frame
  /\ IF More THEN Continue ELSE Finish(ErrOf("Failed to plot", exc))

\* What the caller gets when an exception leaves the operation.
Raised(e) == [exception |-> e]

\* The failure of the recovery reported in place of the error it handles.
RecoveryFail_Masks ==
  /\ pc = "recovery" /\ Issue(FALSE) /\ Frame
  /\ Finish(ErrOf("Failed to plot", Head(queue)))

\* The recovery without its own handler: its exception leaves plot_paths.
RecoveryFail_Propagates ==
  /\ pc = "recovery" /\ Issue(FALSE) /\ Frame
  /\ Finish(Raised(Head(queue)))

\* The recovery itself raised: the exception is swallowed.
RecoveryFail ==
  /\ pc = "recovery" /\ Issue(FALSE) /\ Frame
  /\ Finish(ErrOf("Failed to plot", exc))

Next ==
  \/ Return
  \/ ConnectAlready
  \/ ConnectUnavailable
  \/ ConnectHardware
  \/ ConnectSimulated
  \/ DisconnectAlready
  \/ DisconnectSimulated
  \/ DisconnectHardware
  \/ PlotNotConnected
  \/ PlotSimulated
  \/ PlotHardware
  \/ ConfigureOk
  \/ ConfigureFail
  \/ HomeFirstOk
  \/ HomeFirstFail
  \/ PenUpFirstOk
  \/ PenUpFirstFail
  \/ PathHomeOk
  \/ PathHomeFail
  \/ PathDrawOk
  \/ PathDrawFail
  \/ HomeLastOk
  \/ HomeLastFail
  \/ RecoveryOk
  \/ RecoveryFail

Spec == Init /\ [][Next]_vars

\* ------------------------------------------------- concurrent requests
\* The server runs every request handler as a green thread on the one
\* shared executor and takes no lock; a handler gives up control inside a
\* device command (monkey-patched I/O and sleep), so another request can run
\* while plot_paths is in one of these blocks.
Running == { "configure", "home_first", "penup_first", "path_home",
             "path_draw", "home_last", "recovery" }

\* A /api/disconnect request served while a plot is inside a device command:
\* disconnect() runs on the executor the plot is using.
InterleavedDisconnect ==
  /\ pc \in Running
  /\ connected
  /\ ~dev_mode
  /\ IF ad # NoHandle
     THEN \E out \in {"ok", "AttributeError", "Exception"} :
            /\ opened' = IF out = "ok" THEN opened \ {ad} ELSE opened
            /\ connected' = (out # "ok")
     ELSE /\ connected' = FALSE
          /\ UNCHANGED opened
  /\ UNCHANGED << ad, pen, pos, op, pc, paths, i, queue, exc, last, failed,
                  recovering, created, prev, result, pre >>
  /\ Mode

NextConcurrent == Next \/ InterleavedDisconnect

SpecConcurrent == Init /\ [][NextConcurrent]_vars

\* ============================================================ font parser
\* Lengths are in units of 1/24 pixel, in which every quantity of the layout
\* (font_size / 12, spacing * 0.5, char_width * 1.2, ...) is an integer for
\* an integer font size.  Frequencies and random numbers are in tenths.
Px == 2 * 12

\* Characters are one-character strings; Absent stands for the character
\* U+20AC, which is neither a letter nor printable ASCII.
Absent == "EUR"

Lowercase == { "a", "e", "i", "o", "u", "h" }

Uppercase == { "A" }

\* The character U+4E2D: a letter that has no case.
Uncased == { "ZH" }

\* Characters of the words passed to generate_mistake.
WordChars == { "a", "i", "h", "A", "1" } \cup Uncased

Words == UNION { [1..n -> WordChars] : n \in 0..MaxWordLen }

\* Characters of the texts passed to get_text_paths.
TextChars == { "a", " ", "\n", Absent }

\* Texts longer than MaxTextLen: "hi", a word that can be corrupted after or
\* before a short word, two such words, and three short words.
Samples ==
  { << "h", "i" >>,
    << "a", " ", "a", "a", "a" >>,
    << "a", "a", "a", " ", "a" >>,
    << "a", "a", "a", "\n", "a", "a", "a" >>,
    << "a", " ", "a", " ", "a" >> }

Texts == UNION { [1..n -> TextChars] : n \in 0..MaxTextLen } \cup Samples

FontSizes == { 12, 36, 72 }

\* Arguments of set_mistake_frequency.
Frequencies == { -5, 0, 5, 10, 15 }

\* random.random(): a number in [0, 1).
RandomValues == { 0, 5, 9 }

\* self.vowels = 'aeiou'
vowels == { "a", "e", "i", "o", "u" }

\* str.islower(): no uppercase character and at least one lowercase one.
islower(word) ==
  /\ \E k \in 1..Len(word) : word[k] \in Lowercase
  /\ \A k \in 1..Len(word) : word[k] \notin Uppercase

\* str.isalpha(): not empty and letters only.
isalpha(word) ==
  /\ word # << >>
  /\ \A k \in 1..Len(word) : word[k] \in Lowercase \cup Uppercase \cup Uncased

\* self.mistake_frequency = max(0.0, min(1.0, frequency))
Clamp(frequency) ==
  LET low == IF frequency < 10 THEN frequency ELSE 10
  IN IF low > 0 THEN low ELSE 0

\* The test that lets a word through whatever the random source says.
Ineligible(word) == Len(word) <= 2 \/ ~islower(word) \/ ~isalpha(word)

\* The test against the frequency as a strict comparison.
Spared_Strict(r, frequency) == r > frequency

\* if random.random() >= self.mistake_frequency: the word is left alone.
Spared(r, frequency) == r >= frequency

vowel_positions(word) == { k \in 1..Len(word) : word[k] \in vowels }

\* The replacement drawn from all the vowels.
Replacements_Any(current_vowel) == vowels

\* [v for v in self.vowels if v != current_vowel]
Replacements(current_vowel) == vowels \ { current_vowel }

Unchanged(word) == [word |-> word, is_mistake |-> FALSE]

\* generate_mistake testing the random number against one half instead of
\* the frequency that was set.
generate_mistake_FixedRate(word, frequency) ==
  IF Ineligible(word) THEN { Unchanged(word) }
  ELSE UNION {
         IF Spared(r, 5) THEN { Unchanged(word) }
         ELSE IF vowel_positions(word) = {} THEN { Unchanged(word) }
         ELSE UNION { { [word |-> [word EXCEPT ![at] = replacement],
                         is_mistake |-> TRUE] :
                          replacement \in Replacements(word[at]) } :
                      at \in vowel_positions(word) } :
         r \in RandomValues }

\* generate_mistake: what it can return for a word, over the outcomes of
\* random.random() and of the two random.choice calls.
generate_mistake(word, frequency) ==
  IF Ineligible(word) THEN { Unchanged(word) }
  ELSE UNION {
         IF Spared(r, frequency) THEN { Unchanged(word) }
         ELSE IF vowel_positions(word) = {} THEN { Unchanged(word) }
         ELSE UNION { { [word |-> [word EXCEPT ![at] = replacement],
                         is_mistake |-> TRUE] :
                          replacement \in Replacements(word[at]) } :
                      at \in vowel_positions(word) } :
         r \in RandomValues }

\* text.split(): the maximal runs of characters that are not whitespace;
\* word holds the run being collected.
isspace(c) == c \in { " ", "\n" }

RECURSIVE Split(_, _)
Split(text, word) ==
  LET done == IF word = << >> THEN << >> ELSE << word >>
  IN IF text = << >> THEN done
     ELSE IF isspace(Head(text)) THEN done \o Split(Tail(text), << >>)
     ELSE Split(Tail(text), Append(word, Head(text)))

\* The box drawn for a character without a shape of its own.
Box == << << << 0, 15 >>, << 15, 15 >>, << 15, 30 >>, << 0, 30 >>, << 0, 15 >> >> >>

\* The shapes load_font writes out.
Shapes ==
  [c \in { "A", "a", "e", "h", "i", " " } |->
     CASE c = "A" -> << << << 0, 40 >>, << 20, 0 >>, << 40, 40 >> >>,
                        << << 10, 25 >>, << 30, 25 >> >> >>
       [] c = "a" -> << << << 20, 30 >>, << 10, 30 >>, << 0, 25 >>, << 0, 20 >>,
                           << 5, 15 >>, << 25, 15 >> >>,
                        << << 25, 15 >>, << 25, 30 >> >> >>
       [] c = "e" -> << << << 0, 23 >>, << 20, 23 >>, << 20, 20 >>, << 10, 15 >>,
                           << 0, 20 >>, << 0, 25 >>, << 10, 30 >>, << 20, 28 >> >> >>
       [] c = "h" -> << << << 0, 0 >>, << 0, 30 >> >>,
                        << << 0, 20 >>, << 10, 15 >>, << 20, 20 >>, << 20, 30 >> >> >>
       [] c = "i" -> << << << 10, 15 >>, << 10, 30 >> >>,
                        << << 10, 5 >>, << 10, 7 >> >> >>
       [] c = " " -> << >>]

\* The characters of the model in range(32, 127).
Printable == (Lowercase \cup Uppercase \cup { "1", " " })

\* self.font_data after load_font: the shapes written out, and the box for
\* every other printable ASCII character.
font_data ==
  [c \in Printable |-> IF c \in DOMAIN Shapes THEN Shapes[c] ELSE Box]

\* The lookup without a default: nothing is drawn for an unknown character.
CharPaths_NoDefault(char) ==
  IF char \in DOMAIN font_data THEN font_data[char] ELSE << >>

\* self.font_data.get(char, box)
CharPaths(char) == IF char \in DOMAIN font_data THEN font_data[char] ELSE Box

margin == 50 * Px

x_pos == margin

\* y_pos = margin + font_size
StartY(font_size) == margin + font_size * Px

\* c * scale, with scale = font_size / 12
Scaled(c, font_size) == c * 2 * font_size

char_width(font_size) == Scaled(40, font_size)

char_height(font_size) == Scaled(40, font_size)

spacing(font_size) == Scaled(15, font_size)

max_width == 600 * Px - margin * 2

\* len(modified_word) * char_width * 1.2
word_width(word, font_size) == (Len(word) * char_width(font_size) * 12) \div 10

\* The strokes of one character placed at (render_x, y_pos); a stroke with
\* fewer than 2 points is dropped.
GlyphPaths(char, render_x, y_pos, font_size) ==
  LET strokes == CharPaths(char)
      placed == [k \in 1..Len(strokes) |->
                   [j \in 1..Len(strokes[k]) |->
                      [x |-> render_x + Scaled(strokes[k][j][1], font_size),
                       y |-> y_pos + Scaled(strokes[k][j][2], font_size)]]]
      Valid(path) == Len(path) >= 2
  IN SelectSeq(placed, Valid)

\* render_x += char_width + (spacing * 0.5)
Advance(font_size) == char_width(font_size) + spacing(font_size) \div 2

\* for char in w: the strokes of the characters of a word from render_x on.
RECURSIVE RenderWord(_, _, _, _)
RenderWord(w, render_x, y_pos, font_size) ==
  IF w = << >> THEN << >>
  ELSE GlyphPaths(Head(w), render_x, y_pos, font_size)
       \o RenderWord(Tail(w), render_x + Advance(font_size), y_pos, font_size)

\* x at which the word that follows on the line at render_x starts.
WordStart(render_x, font_size) ==
  IF render_x > x_pos THEN render_x + spacing(font_size) * 2 ELSE render_x

\* for w in current_line: the strokes of the words of a line.
RECURSIVE RenderLine(_, _, _, _)
RenderLine(line, render_x, y_pos, font_size) ==
  IF line = << >> THEN << >>
  ELSE LET start == WordStart(render_x, font_size)
       IN RenderWord(Head(line), start, y_pos, font_size)
          \o RenderLine(Tail(line),
                        start + Len(Head(line)) * Advance(font_size),
                        y_pos, font_size)

\* The loop over the words; ms holds what generate_mistake returned for each
\* of the words still to place, st the locals of get_text_paths.
RECURSIVE PlaceWords(_, _, _)
PlaceWords(ms, font_size, st) ==
  IF ms = << >> THEN st
  ELSE LET m == Head(ms)
           width == word_width(m.word, font_size)
           wrap == /\ st.current_x + width > max_width + margin
                   /\ st.current_line # << >>
           s1 == IF wrap
                 THEN [st EXCEPT
                         !.paths = @ \o RenderLine(st.current_line, x_pos,
                                                   st.y_pos, font_size),
                         !.y_pos = @ + (char_height(font_size) * 3) \div 2,
                         !.current_line = << >>,
                         !.current_x = x_pos]
                 ELSE st
           s2 == [s1 EXCEPT
                    !.current_line = Append(@, m.word),
                    !.mistakes_to_strike =
                       IF m.is_mistake
                       THEN Append(@, [x |-> s1.current_x, y |-> s1.y_pos,
                                       width |-> width])
                       ELSE @,
                    !.current_x = @ + width + char_width(font_size) \div 5]
       IN PlaceWords(Tail(ms), font_size, s2)

\* A strike-through reduced to its starting point.
StrikePath_Point(mistake, font_size) ==
  << [x |-> mistake.x, y |-> mistake.y + char_height(font_size) \div 2] >>

\* The strike-through of one recorded mistake.
StrikePath(mistake, font_size) ==
  LET strike_y == mistake.y + char_height(font_size) \div 2
  IN << [x |-> mistake.x, y |-> strike_y],
        [x |-> mistake.x + mistake.width,
         y |-> strike_y + char_height(font_size) \div 10] >>

\* The locals of get_text_paths after the loop over the words.
Placed(ms, font_size) ==
  PlaceWords(ms, font_size,
             [paths |-> << >>, current_line |-> << >>, current_x |-> x_pos,
              y_pos |-> StartY(font_size), mistakes_to_strike |-> << >>])

\* get_text_paths adding the strike-throughs before the last line.
TextPaths_StrikesFirst(ms, font_size) ==
  LET st == Placed(ms, font_size)
  IN st.paths
     \o [k \in 1..Len(st.mistakes_to_strike) |->
           StrikePath(st.mistakes_to_strike[k], font_size)]
     \o RenderLine(st.current_line, x_pos, st.y_pos, font_size)

\* get_text_paths without the rendering of the line left after the loop.
TextPaths_DropsLastLine(ms, font_size) ==
  LET st == Placed(ms, font_size)
  IN st.paths
     \o [k \in 1..Len(st.mistakes_to_strike) |->
           StrikePath(st.mistakes_to_strike[k], font_size)]

\* What get_text_paths returns when generate_mistake returned ms for the
\* words of the text.
TextPaths(ms, font_size) ==
  LET st == Placed(ms, font_size)
  IN st.paths
     \o RenderLine(st.current_line, x_pos, st.y_pos, font_size)
     \o [k \in 1..Len(st.mistakes_to_strike) |->
           StrikePath(st.mistakes_to_strike[k], font_size)]

\* The sequences generate_mistake can return for a sequence of words.
RECURSIVE Mistakes(_, _)
Mistakes(ws, frequency) ==
  IF ws = << >> THEN { << >> }
  ELSE { << m >> \o rest : m \in generate_mistake(Head(ws), frequency),
                           rest \in Mistakes(Tail(ws), frequency) }

\* The font parser is between two calls.
Idle == call = NoLayout

\* font_parser.set_mistake_frequency(mistake_frequency)
SetMistakeFrequency ==
  /\ Idle
  /\ \E frequency \in Frequencies : mistake_frequency' = Clamp(frequency)
  /\ UNCHANGED << call, seen, executor, server >>

\* generate_mistake(word) called on its own.
GenerateMistake ==
  /\ Idle
  /\ \E word \in Words :
       \E m \in generate_mistake(word, mistake_frequency) :
         call' = [name |-> "generate_mistake", word |-> word,
                  modified |-> m.word, is_mistake |-> m.is_mistake]
  /\ UNCHANGED << mistake_frequency, seen, executor, server >>

\* The record of a get_text_paths call: its arguments, the frequency it ran
\* with, the words and the mistakes it placed, and the paths it returned.
LayoutCall(text, font_size, ms) ==
  [name |-> "get_text_paths",
   text |-> text,
   font_size |-> font_size,
   frequency |-> mistake_frequency,
   words |-> [k \in 1..Len(ms) |-> ms[k].word],
   mistakes |-> Len(SelectSeq(ms, LAMBDA m : m.is_mistake)),
   paths |-> IF text = << >> THEN << >> ELSE TextPaths(ms, font_size)]

\* get_text_paths(text, font_size)
Layout ==
  /\ Idle
  /\ \E text \in Texts, font_size \in FontSizes :
       \E ms \in Mistakes(Split(text, << >>), mistake_frequency) :
         call' = LayoutCall(text, font_size, ms)
  /\ UNCHANGED << mistake_frequency, executor, server >>

GetTextPaths == Layout /\ UNCHANGED seen

\* The number of calls counted after the one that is kept.
MaxLater == 2

\* The calls counted after the one that is kept.
Later == IF seen = NoLayout THEN seen
         ELSE [seen EXCEPT !.later = IF @ < MaxLater THEN @ + 1 ELSE @]

\* get_text_paths in a run that compares calls: the first call made at
\* frequency 0 is kept in seen, the calls after it are counted, and of these
\* only the ones made with the arguments of the kept call are recorded (the
\* others are answered at once; get_text_paths assigns no field).
GetTextPathsAgain ==
  /\ Idle
  /\ \E text \in Texts, font_size \in FontSizes :
       IF seen # NoLayout
          /\ (text # seen.call.text \/ font_size # seen.call.font_size)
       THEN call' = NoLayout /\ seen' = Later
       ELSE \E ms \in Mistakes(Split(text, << >>), mistake_frequency) :
              /\ call' = LayoutCall(text, font_size, ms)
              /\ seen' = IF seen # NoLayout THEN Later
                         ELSE IF mistake_frequency = 0
                         THEN [call |-> call', later |-> 0]
                         ELSE seen
  /\ UNCHANGED << mistake_frequency, executor, server >>

\* The caller has taken what the call returned: its record is dropped.
Answer ==
  /\ ~Idle
  /\ call' = NoLayout
  /\ UNCHANGED << mistake_frequency, seen, executor, server >>

\* font_parser = FontParser(); the executor is constructed but not used.
InitLayout ==
  /\ AXIDRAW_AVAILABLE = FALSE /\ dev_mode = TRUE
  /\ connected = FALSE /\ ad = NoHandle /\ opened = {}
  /\ pen = "up" /\ pos = << 0, 0 >>
  /\ op = "none" /\ pc = "idle"
  /\ paths = << >> /\ i = 0 /\ queue = << >> /\ exc = NoCmd
  /\ last = NoCmd /\ failed = FALSE /\ recovering = FALSE /\ created = 0
  /\ prev = NoCall /\ result = NoResult
  /\ pre = [connected |-> FALSE, ad |-> NoHandle, opened |-> {}]
  /\ mistake_frequency = 0
  /\ call = NoLayout
  /\ seen = NoLayout
  /\ response = NoResponse

NextLayout ==
  \/ SetMistakeFrequency
  \/ GenerateMistake
  \/ GetTextPaths
  \/ Answer

SpecLayout == InitLayout /\ [][NextLayout]_vars

NextRepeat ==
  \/ SetMistakeFrequency
  \/ GetTextPathsAgain
  \/ Answer

SpecRepeat == InitLayout /\ [][NextRepeat]_vars

\* ================================================================= server
\* The parameters of get_text_paths, self apart.
Parameters == { "text", "font_size" }

\* A call binds its keyword arguments when each names a parameter.
Binds(keywords) == keywords \subseteq Parameters

\* get_text_paths() got an unexpected keyword argument
TypeError == Cmd("TypeError", 0, 0)

\* The server is between two requests.
Waiting == pc = "idle" /\ Idle /\ response = NoResponse

\* The record of get_text_paths called right after the frequency was set.
LayoutCallAt(frequency, text, font_size, ms) ==
  [LayoutCall(text, font_size, ms) EXCEPT !.frequency = frequency]

\* handle_text_update(data): sets the mistake frequency, calls
\* get_text_paths(text, font_size, for_preview=True) and emits
\* preview_update with the paths; an exception is answered with an error
\* event.
HandleTextUpdate ==
  /\ Waiting
  /\ \E text \in Texts, font_size \in FontSizes, frequency \in Frequencies :
       /\ mistake_frequency' = Clamp(frequency)
       /\ IF Binds({ "for_preview" })
          THEN \E ms \in Mistakes(Split(text, << >>), Clamp(frequency)) :
                 /\ call' = LayoutCallAt(Clamp(frequency), text, font_size, ms)
                 /\ response' = [request |-> "update_text",
                                 text |-> text, font_size |-> font_size,
                                 event |-> "preview_update",
                                 paths |-> call'.paths]
          ELSE /\ call' = call
               /\ response' = [request |-> "update_text",
                               text |-> text, font_size |-> font_size,
                               event |-> "error",
                               message |-> TypeError]
  /\ UNCHANGED << seen, executor >>

\* plot_text(): calls get_text_paths(text, font_size, for_preview=False),
\* passes the paths to axidraw.plot_paths and answers with its result, 500
\* when it failed; an exception is answered with 500 and its text.  plots
\* counts the calls of plot_paths; the executor of this specification is a
\* simulated one, whose plot_paths returns at once.
PlotText ==
  /\ Waiting
  /\ \E text \in Texts, font_size \in FontSizes :
       IF Binds({ "for_preview" })
       THEN \E ms \in Mistakes(Split(text, << >>), mistake_frequency) :
              LET made == LayoutCall(text, font_size, ms)
                  res == IF RequiresConnected
                         THEN ErrOf("Failed to plot", NotConnected)
                         ELSE SimResult(made.paths)
              IN /\ call' = made
                 /\ response' = [request |-> "plot",
                                 text |-> text, font_size |-> font_size,
                                 status |-> IF res.success THEN 200 ELSE 500,
                                 body |-> res,
                                 plots |-> 1,
                                 paths |-> made.paths]
       ELSE /\ call' = call
            /\ response' = [request |-> "plot",
                            text |-> text, font_size |-> font_size,
                            status |-> 500,
                            body |-> ErrOf("Error plotting text", TypeError),
                            plots |-> 0,
                            paths |-> << >>]
  /\ UNCHANGED << mistake_frequency, seen, executor >>

\* The answer has been sent.
Reply ==
  /\ response # NoResponse
  /\ response' = NoResponse
  /\ call' = NoLayout
  /\ UNCHANGED << mistake_frequency, seen, executor >>

\* axidraw = AxiDrawController(dev_mode=None) where no hardware is detected,
\* and font_parser = FontParser().
InitServer == Init /\ dev_mode

\* The requests of the server: /api/connect, /api/disconnect, update_text and
\* /api/plot.
NextServer ==
  \/ Return
  \/ ConnectAlready
  \/ ConnectUnavailable
  \/ ConnectSimulated
  \/ DisconnectAlready
  \/ DisconnectSimulated
  \/ HandleTextUpdate
  \/ PlotText
  \/ Reply

SpecServer == InitServer /\ [][NextServer]_vars

\* ================================================================ claims
\* The operation named has returned and its result is available.
Returned(name) == pc = "done" /\ op = name

\* The executor fields are what they were when the operation was called.
ExecutorUnchanged ==
  /\ connected = pre.connected
  /\ ad = pre.ad
  /\ opened = pre.opened
  /\ created = 0

\* The operation has sent nothing to the device.
NoDeviceCommand == last = NoCmd /\ ~failed

Failure(r) == r.success = FALSE /\ "error" \in DOMAIN r

\* C1: a plot call on an executor that is not connected never enters the
\* plotting run, in either mode and for every path list: it returns
\* success=false with an error, sends no device command and leaves the
\* executor state as it was.
PlotRequiresConnected ==
  (op = "plot" /\ ~pre.connected) =>
    /\ pc \in {"done", "idle"}
    /\ NoDeviceCommand
    /\ ExecutorUnchanged
    /\ pc = "done" => Failure(result)

\* C1 witness: a non-empty path list was submitted to a disconnected
\* hardware-mode executor that holds a device handle.
PlotRequiresConnectedWitness ==
  /\ Returned("plot") /\ ~pre.connected
  /\ ~dev_mode /\ ad # NoHandle /\ paths # << >>

\* C2: in simulated mode connect() on a disconnected executor always
\* succeeds and leaves the executor connected, whether or not the driver
\* module could be imported.
SimulatedConnectSucceeds ==
  (Returned("connect") /\ dev_mode /\ ~pre.connected) =>
    (result.success /\ connected)

\* C3: every connect() on a connected executor returns the successful
\* "already connected" result, creates no device handle and sends no device
\* command, however many such calls follow one another.
ConnectWhenConnectedNoop ==
  (Returned("connect") /\ pre.connected) =>
    /\ result = Ok("Already connected to AxiDraw")
    /\ NoDeviceCommand
    /\ ExecutorUnchanged

\* C3 witness: in hardware mode connect() was called on a connected
\* executor directly after another connect() on the connected executor.
ConnectWhenConnectedWitness ==
  /\ Returned("connect") /\ pre.connected /\ ~dev_mode
  /\ prev.op = "connect" /\ prev.connected /\ prev.success

\* C4: a hardware-mode connect() that fails returns an error and leaves no
\* partial state: connected stays false, the handle field holds what it held
\* before, and no connection opened during the call remains open.
ConnectFailureLeavesNoPartialState ==
  (Returned("connect") /\ ~dev_mode /\ ~pre.connected /\ ~result.success) =>
    /\ Failure(result)
    /\ ExecutorUnchanged

\* C5: disconnect() is idempotent: a disconnect() that succeeds leaves the
\* executor disconnected, and every disconnect() on a disconnected executor
\* (after such a call, or never connected) succeeds, sends no device command
\* and leaves the executor state as it was.
DisconnectIdempotent ==
  Returned("disconnect") =>
    /\ result.success => ~connected
    /\ ~pre.connected =>
         (result.success /\ NoDeviceCommand /\ ExecutorUnchanged)

\* C5 witness: in hardware mode disconnect() was called directly after a
\* disconnect() that released a connected device successfully.
DisconnectIdempotentWitness ==
  /\ Returned("disconnect") /\ ~pre.connected /\ ~dev_mode
  /\ prev.op = "disconnect" /\ prev.connected /\ prev.success

\* C6: once disconnect() has returned success no device connection is left
\* open, in every state the executor can reach.
DisconnectReleasesDevice ==
  (Returned("disconnect") /\ result.success) => opened = {}

\* C7: a hardware plot run in which a device command failed has attempted
\* the recovery and returns success=false.
CommandFailureFailsPlot ==
  (Returned("plot") /\ ~dev_mode /\ failed) =>
    (recovering /\ ~result.success)

\* C8: in hardware mode no drawing command has a target outside the
\* workspace: every lineTo target is inside it, and the pen is lowered only
\* at a point inside it.
DrawingStaysInWorkspace ==
  (op = "plot" /\ ~dev_mode) =>
    /\ last.name = "lineto" => InBounds([x |-> last.a, y |-> last.b])
    /\ last.name = "pendown" => InBounds([x |-> pos[1], y |-> pos[2]])

\* Points of a path that lie inside the workspace.
InBoundsCount(path) ==
  Cardinality({ k \in 1..Len(path) : WellFormed(path[k]) /\ InBounds(path[k]) })

\* C9: a hardware plot of a list holding a path that starts outside the
\* workspace and another, valid path succeeds with invalid_points >= 1 in
\* its statistics; and the pen is never lowered for a path with fewer than 2
\* points inside the workspace.
InvalidPathsSkippedAndCounted ==
  /\ ( /\ Returned("plot") /\ ~dev_mode /\ pre.connected /\ ~failed
       /\ \A k \in 1..Len(paths) : ~Raises(paths[k])
       /\ \E k \in 1..Len(paths) :
            /\ paths[k] # << >>
            /\ WellFormed(paths[k][1]) /\ ~InBounds(paths[k][1])
       /\ \E k \in 1..Len(paths) :
            /\ InBoundsCount(paths[k]) = Len(paths[k])
            /\ Len(paths[k]) >= 2 )
     => ( /\ result.success
          /\ "statistics" \in DOMAIN result
          /\ "invalid_points" \in DOMAIN result.statistics
          /\ result.statistics.invalid_points >= 1 )
  /\ (op = "plot" /\ ~dev_mode /\ last.name = "pendown")
     => InBoundsCount(paths[i]) >= 2

\* Occurrences of a line in a log.
Count(log, line) == Cardinality({ k \in 1..Len(log) : log[k] = line })

\* Paths of a list with at least 2 points.
DrawablePaths(ps) == { k \in 1..Len(ps) : Len(ps[k]) >= 2 }

\* C10: a simulated plot counts two pen movements and logs one 'lowering
\* pen' step for each path with at least 2 points, and none for the others.
SimulationSkipsShortPaths ==
  (Returned("plot") /\ dev_mode /\ pre.connected /\ result.success) =>
    /\ result.statistics.pen_movements = 2 * Cardinality(DrawablePaths(paths))
    /\ Count(result.simulation_logs, "lower_pen")
         = Cardinality(DrawablePaths(paths))

\* C11: on a connected executor in simulated mode plot([]) succeeds with
\* path count, total distance, pen movements and estimated time all zero,
\* whatever calls came before it.
EmptyPlotHasZeroStatistics ==
  (Returned("plot") /\ dev_mode /\ pre.connected /\ paths = << >>) =>
    /\ result.success
    /\ result.statistics.total_paths = 0
    /\ result.statistics.total_distance = 0
    /\ result.statistics.pen_movements = 0
    /\ result.statistics.estimated_time = 0

\* C11 witness: plot([]) was called in simulated mode directly after another
\* plot call that succeeded.
EmptyPlotHasZeroStatisticsWitness ==
  /\ Returned("plot") /\ dev_mode /\ pre.connected /\ paths = << >>
  /\ prev.op = "plot" /\ prev.connected /\ prev.success

\* A dictionary with a boolean success, and an error text when it is false.
StructuredResult(r) ==
  /\ "success" \in DOMAIN r
  /\ r.success \in BOOLEAN
  /\ ~r.success => "error" \in DOMAIN r

\* C12: connect(), disconnect() and plot() never let an exception out: in
\* every executor state, for every path list (malformed points included)
\* and every device command failure, what they return is a structured
\* result with a boolean success and, when it is false, an error text.
OperationsReturnStructuredResult ==
  pc = "done" => (op \in {"connect", "disconnect", "plot"}
                  /\ StructuredResult(result))

\* C12 witness: a hardware plot read a malformed point, and a device command
\* of the recovery that followed failed as well.
OperationsReturnStructuredResultWitness ==
  /\ Returned("plot") /\ ~dev_mode
  /\ exc = KeyError /\ recovering /\ failed

\* C13: plot() never changes the connection state: during and after every
\* plot call, successful or failed, the connected flag and the device handle
\* are what they were when it was called; and an executor that was connected
\* when an operation other than disconnect() was called is still connected.
PlotKeepsConnection ==
  /\ op = "plot" => (connected = pre.connected /\ ad = pre.ad)
  /\ (op # "disconnect" /\ pre.connected) => connected

\* C13 witness: a hardware plot on a connected executor failed in mid-run and
\* returned failure, and the executor is still connected to the same handle.
PlotKeepsConnectionWitness ==
  /\ Returned("plot") /\ ~dev_mode /\ pre.connected
  /\ failed /\ i >= 1 /\ ~result.success
  /\ connected /\ ad = pre.ad

\* C14: operations on the shared executor are serialized, also when
\* requests are served concurrently as green threads: while a plot is between
\* two of its device commands no disconnect takes effect, so the executor
\* stays connected and its device stays open until the plot has returned.
PlotRunsUninterrupted ==
  (op = "plot" /\ pc \in Running) =>
    (connected /\ opened = pre.opened)

\* get_text_paths has returned and its record is available.
LaidOut == call.name = "get_text_paths"

\* The point lies inside the workspace rectangle (pixels to units).
InWorkspace(p) ==
  /\ WORKSPACE_MIN_X * Px <= p.x /\ p.x <= WORKSPACE_MAX_X * Px
  /\ WORKSPACE_MIN_Y * Px <= p.y /\ p.y <= WORKSPACE_MAX_Y * Px

\* C15: every point of every path that the layout returns for plotting lies
\* inside the workspace bounds, for every text and font size.
LayoutStaysInWorkspace ==
  LaidOut =>
    \A k \in 1..Len(call.paths) :
      \A j \in 1..Len(call.paths[k]) : InWorkspace(call.paths[k][j])

\* Strokes with at least 2 points in the shape looked up for a character.
Strokes(char) ==
  Len(SelectSeq(CharPaths(char), LAMBDA stroke : Len(stroke) >= 2))

RECURSIVE WordStrokes(_)
WordStrokes(w) ==
  IF w = << >> THEN 0 ELSE Strokes(Head(w)) + WordStrokes(Tail(w))

\* Strokes of the characters of a sequence of words.
RECURSIVE GlyphStrokes(_)
GlyphStrokes(ws) ==
  IF ws = << >> THEN 0 ELSE WordStrokes(Head(ws)) + GlyphStrokes(Tail(ws))

\* The word can be corrupted: long enough, lowercase letters only, a vowel.
Corruptible(w) ==
  /\ Len(w) > 2
  /\ \A k \in 1..Len(w) : w[k] \in Lowercase
  /\ \E k \in 1..Len(w) : w[k] \in vowels

\* C16: with mistake frequency 0, whatever the random source returns, the
\* layout places exactly the words of the input, records no mistake, and
\* returns the glyph strokes of those words and no strike-through path.
NoMistakesAtFrequencyZero ==
  (LaidOut /\ call.frequency = 0) =>
    /\ call.words = Split(call.text, << >>)
    /\ call.mistakes = 0
    /\ Len(call.paths) = GlyphStrokes(Split(call.text, << >>))

\* C16 witness: a text holding a word that can be corrupted was laid out with
\* frequency 0.
NoMistakesAtFrequencyZeroWitness ==
  /\ LaidOut /\ call.frequency = 0
  /\ \E k \in 1..Len(call.words) : Corruptible(call.words[k])

\* generate_mistake has returned and its record is available.
Corrupted == call.name = "generate_mistake"

\* Positions at which the word returned differs from the word passed.
Changes ==
  { k \in 1..Len(call.word) : call.modified[k] # call.word[k] }

\* C17: with frequency 1, for every word longer than 2 characters made of
\* lowercase letters only and holding a vowel, and whatever the random
\* source returns, generate_mistake reports a modification, the word it
\* returns has the length of the input and differs from it in exactly one
\* position, and that position holds a vowel in both.
MistakeAtFrequencyOne ==
  (Corrupted /\ mistake_frequency = 10 /\ Corruptible(call.word)) =>
    /\ call.is_mistake
    /\ Len(call.modified) = Len(call.word)
    /\ Cardinality(Changes) = 1
    /\ \A k \in Changes : call.word[k] \in vowels /\ call.modified[k] \in vowels

\* C17 witness: with frequency 1 a word with two vowels and a consonant was
\* corrupted in its last vowel.
MistakeAtFrequencyOneWitness ==
  /\ Corrupted /\ mistake_frequency = 10
  /\ call.word = << "a", "h", "i" >>
  /\ call.modified[3] # "i"

\* C18: for every frequency and whatever the random source returns, a word
\* of at most 2 characters, or holding a character that is not a lowercase
\* letter, or holding no vowel, is returned as it was, reported unmodified.
IneligibleWordsUnchanged ==
  ( /\ Corrupted
    /\ \/ Len(call.word) <= 2
       \/ \E k \in 1..Len(call.word) : call.word[k] \notin Lowercase
       \/ vowel_positions(call.word) = {} ) =>
    (call.modified = call.word /\ ~call.is_mistake)

\* The call recorded has the arguments of the call kept in seen.
SameArguments ==
  /\ LaidOut /\ seen # NoLayout
  /\ call.text = seen.call.text
  /\ call.font_size = seen.call.font_size

\* C19: with mistake frequency 0 the layout is deterministic: a call returns
\* the paths that an earlier call with the same text and font size returned,
\* whatever calls were made in between and whatever the random source
\* returned in either call.
LayoutDeterministicAtZero ==
  (SameArguments /\ call.frequency = 0) => call.paths = seen.call.paths

\* C19 witness: a text holding a word that can be corrupted was laid out
\* with frequency 0, another call followed, and then the same text was laid
\* out again with the same font size and frequency 0.
LayoutDeterministicAtZeroWitness ==
  /\ SameArguments /\ call.frequency = 0
  /\ seen.later >= 2
  /\ \E k \in 1..Len(call.words) : Corruptible(call.words[k])

\* The path is the box drawn with its origin at (x, y).
IsBoxAt(path, x, y, font_size) ==
  /\ Len(path) = Len(Box[1])
  /\ \A j \in 1..Len(path) :
       /\ path[j].x = x + Scaled(Box[1][j][1], font_size)
       /\ path[j].y = y + Scaled(Box[1][j][2], font_size)

\* The paths that are boxes, wherever they are.
Boxes ==
  { k \in 1..Len(call.paths) :
      IsBoxAt(call.paths[k], call.paths[k][1].x,
              call.paths[k][1].y - Scaled(15, call.font_size),
              call.font_size) }

RECURSIVE Flatten(_)
Flatten(ws) == IF ws = << >> THEN << >> ELSE Head(ws) \o Flatten(Tail(ws))

\* The characters placed by the call for which load_font writes no shape:
\* the printable ones it fills in and the ones the glyph map does not hold.
Unshaped(w) == { k \in 1..Len(w) : w[k] \notin DOMAIN Shapes }

\* C20: a character without a shape in the glyph map, printable or not, is
\* drawn as the box and the layout goes on: the paths returned hold one box
\* for each such character and the strokes of all the other characters, and
\* when the character is in the first word the box is at its cursor position.
AbsentCharDrawnAsBox ==
  LaidOut =>
    /\ Cardinality(Boxes) = Cardinality(Unshaped(Flatten(call.words)))
    /\ Len(call.paths) = GlyphStrokes(call.words) + call.mistakes
    /\ call.words # << >> =>
         \A j \in Unshaped(call.words[1]) :
             \E k \in 1..Len(call.paths) :
               IsBoxAt(call.paths[k],
                       x_pos + (j - 1) * Advance(call.font_size),
                       StartY(call.font_size), call.font_size)

\* C20 witness: a word with a character that the glyph map does not hold
\* between two characters that have a shape was laid out.
AbsentCharDrawnAsBoxWitness ==
  /\ LaidOut
  /\ call.text = << "a", Absent, "a" >>
  /\ Absent \notin DOMAIN font_data

\* The characters the call has drawn, in the order of its words.
Drawn == Flatten(call.words)

\* The strokes of the shape of a character that have at least 2 points.
ValidStrokes(char) ==
  SelectSeq(CharPaths(char), LAMBDA stroke : Len(stroke) >= 2)

\* The number of strokes of the characters before the nth of cs.
RECURSIVE StrokesBefore(_, _)
StrokesBefore(cs, n) ==
  IF n <= 1 THEN 0 ELSE StrokesBefore(cs, n - 1) + Strokes(cs[n - 1])

\* The path is the stroke drawn at scale font_size / 12 from the origin o.
IsStrokeAt(path, stroke, o, font_size) ==
  /\ Len(path) = Len(stroke)
  /\ \A j \in 1..Len(path) :
       /\ path[j].x = o.x + Scaled(stroke[j][1], font_size)
       /\ path[j].y = o.y + Scaled(stroke[j][2], font_size)

\* The origin of the group of paths returned for the nth character drawn:
\* where its first path puts the point (0, 0) of the shape.
GroupOrigin(n) ==
  LET path == call.paths[StrokesBefore(Drawn, n) + 1]
      stroke == ValidStrokes(Drawn[n])[1]
  IN [x |-> path[1].x - Scaled(stroke[1][1], call.font_size),
      y |-> path[1].y - Scaled(stroke[1][2], call.font_size)]

\* The paths returned are the groups of the characters cs, one after the
\* other: each group holds the strokes of its character, all drawn from one
\* origin, and no two groups have the same origin.
GroupedBy(cs) ==
  /\ Drawn = cs
  /\ Len(call.paths) >= StrokesBefore(cs, Len(cs) + 1)
  /\ \A n \in 1..Len(cs) :
       /\ Strokes(cs[n]) >= 1
       /\ \A s \in 1..Strokes(cs[n]) :
            IsStrokeAt(call.paths[StrokesBefore(cs, n) + s],
                       ValidStrokes(cs[n])[s], GroupOrigin(n), call.font_size)
  /\ \A n, m \in 1..Len(cs) : n # m => GroupOrigin(n) # GroupOrigin(m)

\* The characters of the text that are not whitespace, in text order.
NonSpace(text) == SelectSeq(text, LAMBDA c : ~isspace(c))

\* C21: with mistake frequency 0 the layout returns one non-empty group of
\* stroke paths for each non-space character of the text, in text order,
\* whether or not lines are wrapped, and no strike-through path after them;
\* for "hi" at font size 12 these are two groups.
OneGroupPerCharacter ==
  (LaidOut /\ call.frequency = 0) =>
    /\ GroupedBy(NonSpace(call.text))
    /\ Len(call.paths) = StrokesBefore(Drawn, Len(Drawn) + 1)
    /\ (call.text = << "h", "i" >> /\ call.font_size = 12) =>
         /\ Len(Drawn) = 2
         /\ GroupOrigin(1) = [x |-> x_pos, y |-> StartY(12)]
         /\ GroupOrigin(2) = [x |-> x_pos + Advance(12), y |-> StartY(12)]

\* C21 witness: with frequency 0 a text of two words was laid out on two
\* lines, and "hi" is among the texts.
OneGroupPerCharacterWitness ==
  /\ LaidOut /\ call.frequency = 0
  /\ call.text = << "a", " ", "a" >>
  /\ GroupOrigin(2).y > GroupOrigin(1).y
  /\ << "h", "i" >> \in Texts

\* C22: every path that the layout returns, glyph stroke or strike-through,
\* has at least 2 points, for every text, font size and mistake outcome.
LayoutPathsHaveTwoPoints ==
  LaidOut => \A k \in 1..Len(call.paths) : Len(call.paths[k]) >= 2

\* C22 witness: a layout returned glyph strokes and the strike-through of a
\* corrupted word.
LayoutPathsHaveTwoPointsWitness ==
  /\ LaidOut
  /\ call.mistakes = 1
  /\ Len(call.paths) = GlyphStrokes(call.words) + 1
  /\ GlyphStrokes(call.words) > 0

\* The step sends the device command of this name: a hardware run is in a
\* block and the command is the next of the block.
Sends(name) == pc \in Running /\ queue # << >> /\ Head(queue).name = name

\* The lineto commands the block still has to send.
LinesLeft == Len(SelectSeq(queue, LAMBDA c : c.name = "lineto"))

\* The point as a head position.
At(p) == << p.x, p.y >>

ConfiguredOnceAndHomed ==
  [][ /\ Sends("options") => (pc = "configure" /\ last = NoCmd)
      /\ (pc \in Running /\ queue # << >> /\ ~Sends("options")) => last # NoCmd
      /\ (pc \in Running /\ pc' = "done" /\ result'.success) =>
           /\ pc = "home_last"
           /\ Len(queue) = 1
           /\ failed' => failed
    ]_vars

\* C25: the exception caught by the plotting handler is the first error of
\* the run that is not contained locally: a command that raised outside the
\* homing before a path, or the read of a malformed point; the recovery
\* keeps it whether its own commands succeed or fail, and the run returns
\* success false with the text of that exception, as a dictionary and not
\* as an exception.
RecoveryKeepsOriginalError ==
  [][ /\ (pc \in Running /\ pc # "recovery" /\ pc' = "recovery") =>
           /\ exc' \in { Head(queue), KeyError }
           /\ pc = "path_home" => exc' = KeyError
           /\ (pc # "path_home" /\ failed' /\ ~failed) => exc' = Head(queue)
      /\ pc = "recovery" =>
           /\ exc' = exc
           /\ pc' \in { "recovery", "done" }
           /\ pc' = "done" =>
                /\ StructuredResult(result')
                /\ result' = ErrOf("Failed to plot", exc)
    ]_vars

\* C25 witness: a lineto failed, the pen-up of the recovery succeeded, the
\* moveto of its re-homing failed, and the result quotes the lineto.
RecoveryKeepsOriginalErrorWitness ==
  /\ Returned("plot") /\ recovering
  /\ exc.name = "lineto"
  /\ last.name = "moveto"
  /\ pen = "up"
  /\ result = ErrOf("Failed to plot", exc)

\* The position in Drawn of the first character of the kth word placed.
FirstChar(k) == Len(Flatten(SubSeq(call.words, 1, k - 1))) + 1

\* Where the kth word placed is drawn: the origin of its first character.
WordOrigin(k) == GroupOrigin(FirstChar(k))

\* For each word of the text, in order, the number of the input line it is
\* on: line breaks before it, counted from line; inword tells that the
\* character before belongs to a word.
RECURSIVE WordLines(_, _, _)
WordLines(text, line, inword) ==
  IF text = << >> THEN << >>
  ELSE IF Head(text) = "\n" THEN WordLines(Tail(text), line + 1, FALSE)
  ELSE IF isspace(Head(text)) THEN WordLines(Tail(text), line, FALSE)
  ELSE IF inword THEN WordLines(Tail(text), line, TRUE)
  ELSE << line >> \o WordLines(Tail(text), line, TRUE)

\* C26: two words of the text with a line break between them are never
\* drawn at the same height, whatever their widths.
LineBreaksStartNewLine ==
  LaidOut =>
    LET lines == WordLines(call.text, 1, FALSE)
    IN \A k, l \in 1..Len(call.words) :
         (k < l /\ lines[k] # lines[l]) => WordOrigin(k).y # WordOrigin(l).y

\* The positions in the list returned of the paths of the kth word placed.
WordPaths(k) ==
  (StrokesBefore(Drawn, FirstChar(k)) + 1)
    ..StrokesBefore(Drawn, FirstChar(k + 1))

\* Another word is drawn on the line of the kth word.
SharesLine(k) ==
  \E l \in 1..Len(call.words) :
    l # k /\ WordOrigin(l).y = WordOrigin(k).y

\* C27: the lines that the word wrap builds stay within the max width: on a
\* line holding more than one word no point is drawn to the right of
\* margin + max width; and a word is drawn on the line of the word before it
\* or on the line after that one, so no line is left empty.
WrappedLinesFit ==
  LaidOut =>
    /\ \A k \in 1..Len(call.words) :
         SharesLine(k) =>
           \A n \in WordPaths(k) :
             \A j \in 1..Len(call.paths[n]) :
               call.paths[n][j].x <= margin + max_width
    /\ \A k \in 2..Len(call.words) :
         WordOrigin(k).y \in
           { WordOrigin(k - 1).y,
             WordOrigin(k - 1).y + (char_height(call.font_size) * 3) \div 2 }

\* The width get_text_paths estimates for a sequence of words at the scale
\* of the font size: the word widths and the gaps between the words.
RECURSIVE EstimatedWidth(_, _)
EstimatedWidth(ws, font_size) ==
  IF ws = << >> THEN 0
  ELSE word_width(Head(ws), font_size)
       + (IF Tail(ws) = << >> THEN 0 ELSE char_width(font_size) \div 5)
       + EstimatedWidth(Tail(ws), font_size)

\* C28: the one scale factor of a call, with which the strokes of every
\* line are drawn, is such that the estimated width of the whole text at
\* that scale does not exceed the width budget.
ScaleFitsWidthBudget ==
  LaidOut =>
    /\ GroupedBy(Drawn)
    /\ EstimatedWidth(call.words, call.font_size) <= max_width

\* The positions of the words that generate_mistake changed, in order.
Struck ==
  SelectSeq([k \in 1..Len(call.words) |-> k],
            LAMBDA k : call.words[k] # Split(call.text, << >>)[k])

\* The path has the shape of the strike-through of the word: two points, the
\* second one the estimated width of the word to the right of the first and
\* a tenth of the character height below it.
IsStrike(path, word, font_size) ==
  /\ Len(path) = 2
  /\ path[2].x - path[1].x = word_width(word, font_size)
  /\ path[2].y - path[1].y = char_height(font_size) \div 10

\* C29: the list returned holds the glyph strokes of all the words first,
\* then one strike-through path of two points for each word that was
\* modified, in the order of the words, and nothing for the other words.
StrikeThroughPerMistake ==
  LaidOut =>
    LET glyphs == StrokesBefore(Drawn, Len(Drawn) + 1)
    IN /\ GroupedBy(Drawn)
       /\ Len(call.paths) = glyphs + Len(Struck)
       /\ \A m \in 1..Len(Struck) :
            IsStrike(call.paths[glyphs + m], call.words[Struck[m]],
                     call.font_size)

\* C29 witness: of two words that can be corrupted the first was modified
\* and the second was not.
StrikeThroughPerMistakeWitness ==
  /\ LaidOut
  /\ Len(call.words) = 2
  /\ Corruptible(call.words[2])
  /\ Struck = << 1 >>

\* The largest x of the points of the paths of the kth word placed.
RightExtent(k) ==
  LET xs == UNION { { call.paths[n][j].x : j \in 1..Len(call.paths[n]) } :
                      n \in WordPaths(k) }
  IN CHOOSE x \in xs : \A other \in xs : other <= x

\* C30: the strike-through of a modified word starts at the x at which the
\* first character of the word is drawn, ends no further left than the
\* rightmost point drawn for the word, and lies, in height, on the line of
\* the word, between the top and the bottom of the character cell; this for
\* a word placed first or later on its line and on any line.
StrikeThroughCoversWord ==
  LaidOut =>
    LET glyphs == StrokesBefore(Drawn, Len(Drawn) + 1)
    IN \A m \in 1..Len(Struck) :
         LET strike == call.paths[glyphs + m]
             origin == WordOrigin(Struck[m])
         IN /\ strike[1].x = origin.x
            /\ strike[2].x >= RightExtent(Struck[m])
            /\ origin.y <= strike[1].y
            /\ strike[2].y <= origin.y + char_height(call.font_size)

\* C31: after a hardware plot that returns success, for every path list and
\* whichever commands failed on the way, the pen is up and the head is at
\* the origin (a command that fails leaves pen and head where they were).
SuccessfulPlotEndsHome ==
  (Returned("plot") /\ ~dev_mode /\ result.success) =>
    (pen = "up" /\ pos = << 0, 0 >>)

\* C31 witness: a hardware plot went through its paths, the first of which
\* it does not skip, a pen-up of its final homing failed, and it returned
\* success.
SuccessfulPlotEndsHomeWitness ==
  /\ Returned("plot") /\ ~dev_mode /\ result.success
  /\ paths # << >> /\ ~Skipped(paths[1]) /\ i > Len(paths)
  /\ failed
  /\ last = PenUp

\* C32: in hardware mode a connected executor holds a device handle, and it
\* is one on which connect() completed; so plot never returns 'AxiDraw
\* device not initialized', and while a plot sends commands they go to such
\* a handle.
ConnectedHoldsHandle ==
  ~dev_mode =>
    /\ connected => (ad # NoHandle /\ ad \in opened)
    /\ result # Err("AxiDraw device not initialized")
    /\ pc \in Running => (ad # NoHandle /\ ad \in opened)

\* C32 witness: a hardware plot has sent commands to the second handle the
\* executor created, after a connect() that failed on the first one.
ConnectedHoldsHandleWitness ==
  /\ Returned("plot") /\ ~dev_mode /\ pre.connected
  /\ last # NoCmd
  /\ ad = 2 /\ opened = { 1, 2 }

\* C33: every plot request is answered from one call of the executor's plot
\* with the layout paths of its text, with HTTP 200 when the result has
\* success and 500 when it has not, and every text update is answered with
\* a preview_update carrying the layout paths of its text.
RequestsServedWithLayout ==
  /\ response.request = "plot" =>
       /\ response.plots = 1
       /\ \E ms \in Mistakes(Split(response.text, << >>), mistake_frequency) :
            response.paths =
              LayoutCall(response.text, response.font_size, ms).paths
       /\ response.status = (IF response.body.success THEN 200 ELSE 500)
  /\ response.request = "update_text" =>
       /\ response.event = "preview_update"
       /\ \E ms \in Mistakes(Split(response.text, << >>), mistake_frequency) :
            response.paths =
              LayoutCall(response.text, response.font_size, ms).paths
====
